---- MODULE Spec2Model ----
(***************************************************************************)
(* A model of SaVSTr: the video evaluation script (exps_video.py) and the  *)
(* AdaAttN network modules (network.py).                                   *)
(*                                                                         *)
(* Four specifications share the module:                                   *)
(*   SpecVideo  the frame loop of exps_video.py, statement by statement    *)
(*   SpecLoss   the per-pair masked loss of exps_video.py as a function    *)
(*   SpecNet    construction and forward of AdaAttN, AdaViT and AdaMSViT   *)
(*   SpecCos    CosineSimilarity.forward on small exact inputs             *)
(* Real numbers are exact rationals <<num, den>>; a float that may be NaN  *)
(* or infinite is a pair with den = 0.  Tensors of the network are their   *)
(* shapes together with a tag naming the value that flows.                 *)
(***************************************************************************)
EXTENDS Integers, Sequences, FiniteSets

VARIABLES
    \* exps_video.py, the frame loop
    pc, ret, frame, frames, nread, reads, count, optical_loss, loss,
    loss_temp, c1, c2, losses, report,
    \* exps_video.py, the tensors of one scored pair
    lpc, mask, cs2, warped_cs1,
    \* network.py, modules and their forward passes
    npc, variant, act_name, qkv_dim, layers, decoder, raised,
    in_fc, in_fs, in_fcs, fcs, calls, cs,
    \* network.py, CosineSimilarity
    cpc, q, k, a

videoVars == <<pc, ret, frame, frames, nread, reads, count, optical_loss,
               loss, loss_temp, c1, c2, losses, report>>
lossVars == <<lpc, mask, cs2, warped_cs1>>
netVars == <<npc, variant, act_name, qkv_dim, layers, decoder, raised,
             in_fc, in_fs, in_fcs, fcs, calls, cs>>
cosVars == <<cpc, q, k, a>>
vars == <<videoVars, lossVars, netVars, cosVars>>

----------------------------------------------------------------------------
(* Bounds of the model *)

\* cap.read() succeeds at most this many times; every later read fails.
MaxReads == 3
\* Largest batch size, spatial side and channel count of a drawn tensor.
MaxBatch == 2
MaxSide == 2
MaxDim == 2
\* Largest number of query tokens and of key tokens of a drawn input.
MaxTokens == 2

(* Program constants *)

\* The decoder's last convolution produces 3 channels: cs1.shape[1].
Channels == 3
\* AdaViT and AdaMSViT build every AdaAttN with qkv_dim=512.
QkvDim == 512

\* The pixel positions (row, column) of a stylized frame, scaled down from
\* IMAGE_SIZE2 = (256, 512) to one row of two pixels.
PixelGrid == {<<0, 0>>, <<0, 1>>}
\* The intensities a pixel takes in the model, within clamp(0, 255).
Intensities == {0, 2}

----------------------------------------------------------------------------
(* Exact arithmetic *)

Abs(x) == IF x < 0 THEN -x ELSE x

RECURSIVE Gcd(_, _)
Gcd(x, y) == IF y = 0 THEN x ELSE Gcd(y, x % y)

\* The rational n/d (d # 0) in lowest terms with a positive denominator.
Rat(n, d) ==
    LET g == Gcd(Abs(n), Abs(d))
        s == IF d < 0 THEN -1 ELSE 1
    IN  <<s * (n \div g), s * (d \div g)>>

Zero == Rat(0, 1)
RatAdd(x, y) == Rat(x[1] * y[2] + y[1] * x[2], x[2] * y[2])
RatDivInt(x, n) == Rat(x[1], x[2] * n)

RECURSIVE SumOver(_, _)
\* The sum of f[e] over the finite set S.
SumOver(S, f) ==
    IF S = {} THEN 0
    ELSE LET e == CHOOSE x \in S : TRUE
         IN  f[e] + SumOver(S \ {e}, f)

RECURSIVE RatSum(_)
RatSum(s) == IF s = <<>> THEN Zero ELSE RatAdd(s[1], RatSum(Tail(s)))

----------------------------------------------------------------------------
(* exps_video.py: the per-pair loss, lines 99-106 *)

\* The entries of a (1, C, H, W) tensor: channel and pixel position.
Entries == (1..Channels) \X PixelGrid
Tensors == [Entries -> Intensities]
\* flow_warp_mask(...) gives one 0/1 value per pixel.
Masks == [PixelGrid -> {0, 1}]

\* mask.unsqueeze(1).expand(-1, cs1.shape[1], -1, -1): the pixel's mask value
\* repeated for every channel.
ExpandMask(m) == [e \in Entries |-> m[e[2]]]

\* nn.MSELoss(reduction="none"): the elementwise squared difference.
mseMatrix(x, y) == [e \in Entries |-> (x[e] - y[e]) * (x[e] - y[e])]

\* A faulty variant of PairLoss: the sum divided by the number of unmasked entries.
PairLossUnmaskedMean(m, x2, w1) ==
    LET em == ExpandMask(m)
        sq == mseMatrix(x2, w1)
        n == Cardinality({e \in Entries : em[e] = 1})
    IN  IF n = 0 THEN Zero
        ELSE Rat(SumOver(Entries, [e \in Entries |-> em[e] * sq[e]]), n)

\* loss = torch.sum(mask * mseMatrix(cs2, warped_cs1))
\*        / (cs1.shape[1] * cs1.shape[2] * cs1.shape[3])
PairLoss(m, x2, w1) ==
    LET em == ExpandMask(m)
        sq == mseMatrix(x2, w1)
    IN  Rat(SumOver(Entries, [e \in Entries |-> em[e] * sq[e]]),
            Channels * Cardinality(PixelGrid))

\* Every value line 106 can give: the mask, the stylized frame and the warped
\* frame are outputs of the networks and the flow utilities, any tensors.
PairLosses == {PairLoss(m, x2, w1) : m \in Masks, x2 \in Tensors, w1 \in Tensors}

----------------------------------------------------------------------------
(* exps_video.py: the frame loop, lines 54-121 *)

\* The frame value of a failed read (None).
NoFrame == 0

\* cap.read() as the (n+1)-th call: <<ret, frame>>.  A successful read gives
\* the frame numbered by the call; a failed one gives None.
CapRead(n) ==
    IF n < MaxReads THEN {<<TRUE, n + 1>>, <<FALSE, NoFrame>>}
    ELSE {<<FALSE, NoFrame>>}

\* An image handed to cv2_to_tensor: a whole frame, or one row of it.
WholeFrame(f) == [of |-> f, part |-> "whole"]
\* frame[i] of an H x W x 3 array: row i of that frame.
Index(f, i) == [of |-> f, part |-> IF i = 0 THEN "row0" ELSE "row1"]

\* Lines 82-83: the images converted to c1 and c2.
ContentImages(f, fs) == <<Index(f, 0), Index(f, 1)>>

\* cv2_to_tensor(img, resize=...).unsqueeze(0): the image as a resized
\* batch-of-one tensor; the model keeps what it was made from.
Cv2ToTensor(img) == [src |-> img, batch |-> 1]

\* A non-negative real given by its square: Sqrt(x) is the root of x.
Sqrt(x) == [root_of |-> x]
RealDivInt(r, n) == [root_of |-> RatDivInt(r.root_of, n * n)]

\* torch.sqrt(optical_loss) / count.  With no pair scored optical_loss is
\* still the int 0 and count is 0: the expression raises.
RunningValue(ol, n) ==
    IF n = 0 THEN [raised |-> TRUE, value |-> Sqrt(Zero)]
    ELSE [raised |-> FALSE, value |-> RealDivInt(Sqrt(ol), n)]

VideoFields ==
    /\ ret = FALSE
    /\ frame = NoFrame
    /\ frames = <<>>
    /\ nread = 0
    /\ reads = <<>>
    /\ count = 0
    /\ optical_loss = Zero
    /\ loss = Zero
    /\ loss_temp = Sqrt(Zero)
    /\ c1 = Cv2ToTensor(WholeFrame(NoFrame))
    /\ c2 = Cv2ToTensor(WholeFrame(NoFrame))
    /\ losses = <<>>
    /\ report = [raised |-> FALSE, value |-> Sqrt(Zero)]

VideoInit == pc = "first" /\ VideoFields
VideoIdle == pc = "idle" /\ VideoFields

\* Lines 68-72: the first frame is read and appended; ret is not looked at.
FirstFrame ==
    /\ pc = "first"
    /\ \E r \in CapRead(nread) :
        /\ ret' = r[1]
        /\ frame' = r[2]
        /\ frames' = Append(<<>>, r[2])
        /\ reads' = Append(reads, r[2])
    /\ nread' = nread + 1
    /\ pc' = "loop"
    /\ UNCHANGED <<count, optical_loss, loss, loss_temp, c1, c2, losses, report>>
    /\ UNCHANGED <<lossVars, netVars, cosVars>>

\* Lines 74-78: the next frame is read and appended; a failed read leaves
\* the loop.
LoopRead ==
    /\ pc = "loop"
    /\ \E r \in CapRead(nread) :
        /\ ret' = r[1]
        /\ frame' = r[2]
        /\ frames' = Append(frames, r[2])
        /\ reads' = Append(reads, r[2])
        /\ pc' = IF r[1] THEN "body" ELSE "final"
    /\ nread' = nread + 1
    /\ UNCHANGED <<count, optical_loss, loss, loss_temp, c1, c2, losses, report>>
    /\ UNCHANGED <<lossVars, netVars, cosVars>>

\* Lines 80-108: the pair is converted, stylized, warped and scored.  The
\* stylized frame cs2, the warped frame and the mask come from the networks
\* and the flow utilities, so the pair's loss is any value line 106 can give.
Score ==
    /\ pc = "body"
    /\ c1' = Cv2ToTensor(ContentImages(frame, frames)[1])
    /\ c2' = Cv2ToTensor(ContentImages(frame, frames)[2])
    /\ \E l \in PairLosses :
        /\ loss' = l
        /\ optical_loss' = RatAdd(optical_loss, l)
        /\ losses' = Append(losses, l)
    /\ count' = count + 1
    /\ pc' = "pop"
    /\ UNCHANGED <<ret, frame, frames, nread, reads, loss_temp, report>>
    /\ UNCHANGED <<lossVars, netVars, cosVars>>

\* A faulty variant of Pop: the oldest frame stays in the buffer.
PopKeepsFrames ==
    /\ pc = "pop"
    /\ loss_temp' = RunningValue(optical_loss, count).value
    /\ pc' = "loop"
    /\ UNCHANGED <<ret, frame, frames, nread, reads, count, optical_loss, loss,
                   c1, c2, losses, report>>
    /\ UNCHANGED <<lossVars, netVars, cosVars>>

\* Lines 110-116: the oldest frame leaves the buffer; the running value is
\* shown.
Pop ==
    /\ pc = "pop"
    /\ frames' = Tail(frames)
    /\ loss_temp' = RunningValue(optical_loss, count).value
    /\ pc' = "loop"
    /\ UNCHANGED <<ret, frame, nread, reads, count, optical_loss, loss, c1, c2,
                   losses, report>>
    /\ UNCHANGED <<lossVars, netVars, cosVars>>

\* Lines 118-121: the final report.
Final ==
    /\ pc = "final"
    /\ report' = RunningValue(optical_loss, count)
    /\ pc' = "done"
    /\ UNCHANGED <<ret, frame, frames, nread, reads, count, optical_loss, loss,
                   loss_temp, c1, c2, losses>>
    /\ UNCHANGED <<lossVars, netVars, cosVars>>

VideoNext == FirstFrame \/ LoopRead \/ Score \/ Pop \/ Final

----------------------------------------------------------------------------
(* exps_video.py: one scored pair with its tensors in view *)

LossInputs ==
    /\ lpc = "inputs"
    /\ mask \in Masks
    /\ cs2 \in Tensors
    /\ warped_cs1 \in Tensors

LossIdle ==
    /\ lpc = "idle"
    /\ mask = [p \in PixelGrid |-> 1]
    /\ cs2 = [e \in Entries |-> 0]
    /\ warped_cs1 = [e \in Entries |-> 0]

\* Line 106 on the tensors of the state.
LossStep ==
    /\ lpc = "inputs"
    /\ loss' = PairLoss(mask, cs2, warped_cs1)
    /\ lpc' = "scored"
    /\ UNCHANGED <<mask, cs2, warped_cs1>>
    /\ UNCHANGED <<pc, ret, frame, frames, nread, reads, count, optical_loss,
                   loss_temp, c1, c2, losses, report>>
    /\ UNCHANGED <<netVars, cosVars>>

----------------------------------------------------------------------------
(* network.py: tensor shapes *)

\* The shape of a failed operation.
ShapeError == <<>>

RECURSIVE Numel(_)
Numel(s) == IF s = <<>> THEN 1 ELSE s[1] * Numel(Tail(s))

Max(x, y) == IF x >= y THEN x ELSE y

\* nn.Conv2d(dim, dim, 1): a 1x1 convolution; the input has dim channels.
Conv2d1x1(dim, s) ==
    IF Len(s) # 4 \/ s[2] # dim THEN ShapeError ELSE <<s[1], dim, s[3], s[4]>>

\* nn.InstanceNorm2d(dim, affine=False): the shape is kept.
InstanceNorm2d(dim, s) == IF Len(s) # 4 THEN ShapeError ELSE s

\* x.view(b, -1, h * w) of a (b, c, h, w) tensor.
ViewTokens(s) ==
    IF Len(s) # 4 THEN ShapeError
    ELSE <<s[1], Numel(s) \div (s[1] * s[3] * s[4]), s[3] * s[4]>>

\* x.permute(0, 2, 1)
Permute021(s) == IF Len(s) # 3 THEN ShapeError ELSE <<s[1], s[3], s[2]>>

\* torch.bmm(x, y): (b, n, m) x (b, m, p) -> (b, n, p)
Bmm(x, y) ==
    IF Len(x) # 3 \/ Len(y) # 3 THEN ShapeError
    ELSE IF x[1] # y[1] \/ x[3] # y[2] THEN ShapeError
    ELSE <<x[1], x[2], y[3]>>

\* The shape of an elementwise operation on x and y, with broadcasting.
Broadcast(x, y) ==
    IF x = ShapeError \/ y = ShapeError \/ Len(x) # Len(y) THEN ShapeError
    ELSE IF \E i \in 1..Len(x) : x[i] # y[i] /\ x[i] # 1 /\ y[i] # 1
         THEN ShapeError
    ELSE [i \in 1..Len(x) |-> Max(x[i], y[i])]

\* A reduction over dimension d with keepdim=True (LA.vector_norm, sum); d is
\* counted from 1 here.
ReduceKeepdim(s, d) ==
    IF Len(s) # 3 THEN ShapeError ELSE [i \in 1..3 |-> IF i = d THEN 1 ELSE s[i]]

\* Softmax.forward and CosineSimilarity.forward on shapes.
ScorerShape(act, qs, ks) ==
    IF act = "Softmax" THEN Bmm(qs, ks)
    ELSE LET s == Broadcast(Bmm(qs, ks),
                            Bmm(ReduceKeepdim(qs, 3), ReduceKeepdim(ks, 2)))
         IN  Broadcast(s, ReduceKeepdim(s, 3))

\* M.view(b, h_c, w_c, -1).permute(0, 3, 1, 2)
ViewSpatial(s, b, h, w) ==
    IF s = ShapeError \/ Numel(s) % (b * h * w) # 0 THEN ShapeError
    ELSE <<b, Numel(s) \div (b * h * w), h, w>>

\* A faulty variant of Interpolate: the size argument is ignored.
InterpolateKeepsSize(s, h, w) == s

\* F.interpolate(x, size=(h, w), mode="bilinear", align_corners=False)
Interpolate(s, h, w) == IF Len(s) # 4 THEN ShapeError ELSE <<s[1], s[2], h, w>>

\* AdaAttN.forward, lines 134-168, on the shapes of fc, fs and fcs.
AdaAttNForward(act, dim, fc, fs, fcsIn) ==
    LET Q == Permute021(ViewTokens(Conv2d1x1(dim, InstanceNorm2d(dim, fc))))
        K == ViewTokens(Conv2d1x1(dim, InstanceNorm2d(dim, fs)))
        V == Permute021(ViewTokens(Conv2d1x1(dim, fs)))
        A == ScorerShape(act, Q, K)
        M == Bmm(A, V)
        Var == Broadcast(Bmm(A, V), M)
        S == Var
        M4 == ViewSpatial(M, fc[1], fc[3], fc[4])
        S4 == ViewSpatial(S, fc[1], fc[3], fc[4])
        resize == M4 # fcsIn
        M5 == IF resize THEN Interpolate(M4, fcsIn[3], fcsIn[4]) ELSE M4
        S5 == IF resize THEN Interpolate(S4, fcsIn[3], fcsIn[4]) ELSE S4
    IN  Broadcast(Broadcast(S5, InstanceNorm2d(dim, fcsIn)), M5)

\* Conv: ReflectionPad2d(floor(k / 2)) then nn.Conv2d(cin, cout, k, stride).
\* A reflection needs the padding to be smaller than the side it pads.
ConvShape(s, cin, cout, ksize, stride) ==
    IF Len(s) # 4 \/ s[2] # cin THEN ShapeError
    ELSE LET pad == ksize \div 2
         IN  IF pad >= s[3] \/ pad >= s[4] THEN ShapeError
             ELSE <<s[1], cout, (s[3] + 2 * pad - ksize) \div stride + 1,
                    (s[4] + 2 * pad - ksize) \div stride + 1>>

\* ConvReluInterpolate: the convolution, then bilinear upsampling by factor.
ConvReluInterpolate(s, cin, cout, ksize, stride, factor) ==
    LET c == ConvShape(s, cin, cout, ksize, stride)
    IN  IF c = ShapeError THEN ShapeError
        ELSE <<c[1], c[2], c[3] * factor, c[4] * factor>>

\* Decoder.forward, lines 63-88, on shapes.
DecoderForward(multi_scale, s) ==
    LET s1 == IF multi_scale THEN ConvShape(s, 512, 256, 3, 1)
              ELSE ConvReluInterpolate(s, 512, 256, 3, 1, 2)
        s2 == ConvShape(ConvShape(ConvShape(s1, 256, 256, 3, 1),
                                  256, 256, 3, 1), 256, 256, 3, 1)
        s3 == ConvReluInterpolate(s2, 256, 128, 3, 1, 2)
        s4 == ConvReluInterpolate(ConvShape(s3, 128, 128, 3, 1), 128, 64, 3, 1, 2)
    IN  ConvShape(ConvShape(s4, 64, 64, 3, 1), 64, 3, 3, 1)

----------------------------------------------------------------------------
(* network.py: construction, lines 117-132, 171-178, 188-195 *)

\* A faulty variant of AdaAttNInit: an unknown name falls back to Softmax.
AdaAttNInitDefaults(dim, activation) ==
    IF activation = "cosine"
    THEN [ok |-> TRUE, qkv_dim |-> dim, activation |-> "CosineSimilarity"]
    ELSE [ok |-> TRUE, qkv_dim |-> dim, activation |-> "Softmax"]

\* AdaAttN.__init__: the scorer is chosen by name; any other name raises.
AdaAttNInit(dim, activation) ==
    IF activation = "softmax"
    THEN [ok |-> TRUE, qkv_dim |-> dim, activation |-> "Softmax"]
    ELSE IF activation = "cosine"
    THEN [ok |-> TRUE, qkv_dim |-> dim, activation |-> "CosineSimilarity"]
    ELSE [ok |-> FALSE, qkv_dim |-> dim, activation |-> "ValueError"]

\* AdaViT.__init__ (multi_scale FALSE) and AdaMSViT.__init__ (TRUE): three
\* AdaAttN layers, then the decoder; a raise in a layer leaves no module.
StackInit(activation, multi_scale) ==
    LET a1 == AdaAttNInit(QkvDim, activation)
        a2 == AdaAttNInit(QkvDim, activation)
        a3 == AdaAttNInit(QkvDim, activation)
    IN  IF a1.ok /\ a2.ok /\ a3.ok
        THEN [ok |-> TRUE, layers |-> <<a1, a2, a3>>, decoder |-> <<multi_scale>>]
        ELSE [ok |-> FALSE, layers |-> <<>>, decoder |-> <<>>]

\* The module a constructor call gives.
NewModule(v, dim, activation) ==
    IF v = "AdaAttN"
    THEN LET m == AdaAttNInit(dim, activation)
         IN  IF m.ok THEN [ok |-> TRUE, layers |-> <<m>>, decoder |-> <<>>]
             ELSE [ok |-> FALSE, layers |-> <<>>, decoder |-> <<>>]
    ELSE StackInit(activation, v = "AdaMSViT")

Variants == {"AdaAttN", "AdaViT", "AdaMSViT"}
ActivationNames == {"softmax", "cosine", "Softmax", "relu", ""}

Tag(kind, idx) == [kind |-> kind, idx |-> idx]
Tensor(shape, tag) == [shape |-> shape, tag |-> tag]
NoTensor == Tensor(ShapeError, Tag("none", 0))

Sides == 1..MaxSide
\* The heights and widths of a feature map: InstanceNorm2d takes a map of more
\* than one spatial element.
Spatial == {hw \in Sides \X Sides : hw[1] * hw[2] > 1}

NetInit ==
    /\ npc = "new"
    /\ variant \in Variants
    /\ act_name \in ActivationNames
    /\ qkv_dim \in IF variant = "AdaAttN" THEN 1..MaxDim ELSE {QkvDim}
    /\ layers = <<>>
    /\ decoder = <<>>
    /\ raised = ""
    /\ \E b \in 1..MaxBatch :
        IF variant = "AdaAttN"
        THEN \E c \in Spatial, st \in Spatial, t \in Spatial :
                /\ in_fc = <<Tensor(<<b, qkv_dim, c[1], c[2]>>, Tag("fc", 0))>>
                /\ in_fs = <<Tensor(<<b, qkv_dim, st[1], st[2]>>, Tag("fs", 0))>>
                /\ in_fcs = Tensor(<<b, qkv_dim, t[1], t[2]>>, Tag("fcs", 0))
        ELSE \E side \in [1..3 -> Sides], t \in Sides :
                /\ in_fc = [i \in 1..3 |->
                              Tensor(<<b, qkv_dim, 2 * side[i], 2 * side[i]>>,
                                     Tag("fc", i - 1))]
                /\ in_fs = [i \in 1..3 |->
                              Tensor(<<b, qkv_dim, 2 * t, 2 * t>>, Tag("fs", i - 1))]
                /\ in_fcs = NoTensor
    /\ fcs = NoTensor
    /\ calls = <<>>
    /\ cs = [shape |-> ShapeError, tag |-> Tag("none", 0), from |-> Tag("none", 0)]

\* The constructor call: a module, or the constructor's exception.
Construct ==
    /\ npc = "new"
    /\ LET m == NewModule(variant, qkv_dim, act_name)
       IN  /\ layers' = m.layers
           /\ decoder' = m.decoder
           /\ raised' = IF m.ok THEN "" ELSE "ValueError"
           /\ npc' = IF m.ok THEN "constructed" ELSE "raised"
    /\ UNCHANGED <<variant, act_name, qkv_dim, in_fc, in_fs, in_fcs, fcs, calls, cs>>
    /\ UNCHANGED <<videoVars, lossVars, cosVars>>

\* One call layers[i](fc, fs, fcsIn): the output tensor and the call's record.
LayerCall(i, fc, fs, fcsIn) ==
    [out |-> Tensor(AdaAttNForward(layers[i].activation, layers[i].qkv_dim,
                                   fc.shape, fs.shape, fcsIn.shape),
                    Tag("adaattn", i)),
     rec |-> [layer |-> i, fc |-> fc.tag, fs |-> fs.tag, fcs |-> fcsIn.tag]]

\* fcs = self.adaattnN(fc[i], fs[i], fcsIn) as one step of a forward pass: the
\* output is bound to fcs, or the call raises on a shape mismatch.
LayerStep(i, fcsIn, next) ==
    LET c == LayerCall(i, in_fc[i], in_fs[i], fcsIn)
        ok == c.out.shape # ShapeError
    IN  /\ calls' = Append(calls, c.rec)
        /\ fcs' = IF ok THEN c.out ELSE fcs
        /\ npc' = IF ok THEN next ELSE "failed"
        /\ UNCHANGED <<variant, act_name, qkv_dim, layers, decoder, raised,
                       in_fc, in_fs, in_fcs, cs>>
        /\ UNCHANGED <<videoVars, lossVars, cosVars>>

\* A direct AdaAttN.forward(fc, fs, fcs).
ForwardDirect ==
    /\ npc = "constructed"
    /\ variant = "AdaAttN"
    /\ LayerStep(1, in_fcs, "returned")

\* A faulty variant of Forward2: the second layer restarts from the content level.
Forward2FromContent ==
    /\ npc = "l1"
    /\ LayerStep(2, in_fc[2], "l2")

\* fcs = self.adaattn1(fc[0], fs[0], fc[0])
Forward1 ==
    /\ npc = "constructed"
    /\ variant \in {"AdaViT", "AdaMSViT"}
    /\ LayerStep(1, in_fc[1], "l1")

\* fcs = self.adaattn2(fc[1], fs[1], fcs)
Forward2 ==
    /\ npc = "l1"
    /\ LayerStep(2, fcs, "l2")

\* fcs = self.adaattn3(fc[2], fs[2], fcs)
Forward3 ==
    /\ npc = "l2"
    /\ LayerStep(3, fcs, "l3")

\* cs = self.decoder(fcs); return cs
Decode ==
    /\ npc = "l3"
    /\ LET shape == DecoderForward(decoder[1], fcs.shape)
       IN  /\ cs' = IF shape = ShapeError THEN cs
                    ELSE [shape |-> shape, tag |-> Tag("cs", 0), from |-> fcs.tag]
           /\ npc' = IF shape = ShapeError THEN "failed" ELSE "decoded"
    /\ UNCHANGED <<variant, act_name, qkv_dim, layers, decoder, raised,
                   in_fc, in_fs, in_fcs, fcs, calls>>
    /\ UNCHANGED <<videoVars, lossVars, cosVars>>

NetNext == Construct \/ ForwardDirect \/ Forward1 \/ Forward2 \/ Forward3 \/ Decode

NetIdle ==
    /\ npc = "idle"
    /\ variant = "AdaAttN"
    /\ act_name = "softmax"
    /\ qkv_dim = QkvDim
    /\ layers = <<>>
    /\ decoder = <<>>
    /\ raised = ""
    /\ in_fc = <<>>
    /\ in_fs = <<>>
    /\ in_fcs = NoTensor
    /\ fcs = NoTensor
    /\ calls = <<>>
    /\ cs = [shape |-> ShapeError, tag |-> Tag("none", 0), from |-> Tag("none", 0)]

----------------------------------------------------------------------------
(* network.py: CosineSimilarity.forward, lines 100-114, on exact values *)

\* A float: a rational <<n, d>> with d > 0, an infinity <<1, 0>> or <<-1, 0>>,
\* or NaN <<0, 0>>.
NaN == <<0, 0>>
One == Rat(1, 1)
IsFinite(x) == x[2] # 0
Sign(n) == IF n > 0 THEN 1 ELSE IF n < 0 THEN -1 ELSE 0

\* x + y in floating point, rounding apart.
FAdd(x, y) ==
    IF x = NaN \/ y = NaN THEN NaN
    ELSE IF IsFinite(x) /\ IsFinite(y) THEN RatAdd(x, y)
    ELSE IF IsFinite(x) THEN y
    ELSE IF IsFinite(y) \/ x = y THEN x
    ELSE NaN

\* x / y in floating point, rounding apart: 0/0 is NaN, x/0 is an infinity.
FDiv(x, y) ==
    IF x = NaN \/ y = NaN THEN NaN
    ELSE IF ~IsFinite(y) THEN (IF IsFinite(x) THEN Zero ELSE NaN)
    ELSE IF ~IsFinite(x) THEN <<x[1] * (IF y[1] < 0 THEN -1 ELSE 1), 0>>
    ELSE IF y[1] = 0 THEN <<Sign(x[1]), 0>>
    ELSE Rat(x[1] * y[2], x[2] * y[1])

RECURSIVE FSum(_)
FSum(s) == IF s = <<>> THEN Zero ELSE FAdd(s[1], FSum(Tail(s)))

\* The entry (r, j) of torch.bmm(x, y): the dot product of row r and column j.
Dot(u, v) == SumOver(1..Len(u), [i \in 1..Len(u) |-> u[i] * v[i]])

\* The root of a perfect square.
ISqrt(n) == CHOOSE r \in 0..n : r * r = n

\* LA.vector_norm of one token.
Norm(v) == ISqrt(Dot(v, v))

\* A faulty variant of CosineSimilarity: the +1 shift is left out.
CosineSimilarityNoShift(qs, ks) ==
    LET s == [r \in 1..Len(qs) |-> [j \in 1..Len(ks) |->
                 FDiv(Rat(Dot(qs[r], ks[j]), 1), Rat(Norm(qs[r]) * Norm(ks[j]), 1))]]
    IN  [r \in 1..Len(qs) |-> [j \in 1..Len(ks) |-> FDiv(s[r][j], FSum(s[r]))]]

\* CosineSimilarity.forward for one batch element: qs are the rows of q
\* (t, d) and ks the columns of k (d, t).
CosineSimilarity(qs, ks) ==
    LET q_norm == [r \in 1..Len(qs) |-> Norm(qs[r])]
        k_norm == [j \in 1..Len(ks) |-> Norm(ks[j])]
        s == [r \in 1..Len(qs) |-> [j \in 1..Len(ks) |->
                 FAdd(FDiv(Rat(Dot(qs[r], ks[j]), 1), Rat(q_norm[r] * k_norm[j], 1)),
                      One)]]
    IN  [r \in 1..Len(qs) |-> [j \in 1..Len(ks) |-> FDiv(s[r][j], FSum(s[r]))]]

\* The tokens of the model: vectors of integer length, the zero vector among
\* them.
Vectors == {<<3, 4>>, <<-3, -4>>, <<4, -3>>, <<0, 5>>, <<0, 0>>}
TokenSeqs == UNION {[1..n -> Vectors] : n \in 1..MaxTokens}

CosInit ==
    /\ cpc = "inputs"
    /\ q \in TokenSeqs
    /\ k \in TokenSeqs
    /\ a = <<>>

CosIdle ==
    /\ cpc = "idle"
    /\ q = <<>>
    /\ k = <<>>
    /\ a = <<>>

\* a = self.activation(Q, K) with the cosine scorer.
CosForward ==
    /\ cpc = "inputs"
    /\ a' = CosineSimilarity(q, k)
    /\ cpc' = "scored"
    /\ UNCHANGED <<q, k>>
    /\ UNCHANGED <<videoVars, lossVars, netVars>>

----------------------------------------------------------------------------
(* The specifications *)

InitVideo == VideoInit /\ LossIdle /\ NetIdle /\ CosIdle
InitLoss == VideoIdle /\ LossInputs /\ NetIdle /\ CosIdle
InitNet == VideoIdle /\ LossIdle /\ NetInit /\ CosIdle
InitCos == VideoIdle /\ LossIdle /\ NetIdle /\ CosInit

SpecVideo == InitVideo /\ [][VideoNext]_vars
SpecLoss == InitLoss /\ [][LossStep]_vars
SpecNet == InitNet /\ [][NetNext]_vars
SpecCos == InitCos /\ [][CosForward]_vars

----------------------------------------------------------------------------
(* The claims about the video loop (SpecVideo) *)

\* C1: once count >= 1 pairs are scored with losses L_1..L_count, the reported
\* 'Optical Flow Loss' is sqrt((L_1 + ... + L_count) / count).
C1_ReportIsRootOfMean ==
    (pc = "done" /\ count >= 1 /\ reads[1] # NoFrame) =>
        /\ ~report.raised
        /\ report.value = Sqrt(RatDivInt(RatSum(losses), count))

\* C3: once any cap.read() has failed, the first one included, no further
\* frame is read and no pair is scored.
C3_FailedReadEndsProcessing ==
    [][(\E i \in 1..Len(reads) : reads[i] = NoFrame)
           => (nread' = nread /\ count' = count)]_vars

\* C8: the pair scored in iteration k is made of video frame k-1 (as c1) and
\* video frame k (as c2), the two frames of the buffer.
C8_PairIsConsecutiveFrames ==
    (pc = "pop" /\ reads[1] # NoFrame) =>
        /\ c1 = Cv2ToTensor(WholeFrame(reads[nread - 1]))
        /\ c2 = Cv2ToTensor(WholeFrame(reads[nread]))

\* C9: the frame buffer never holds more than 2 entries; when a pair is scored
\* it holds the previously read frame followed by the just-read frame; after
\* each completed iteration it holds the most recent frame alone.
C9_FrameBufferIsWindowOfTwo ==
    /\ Len(frames) <= 2
    /\ pc \in {"body", "pop"} => frames = <<reads[nread - 1], reads[nread]>>
    /\ (pc = "loop" /\ count >= 1) => frames = <<reads[nread]>>

\* C9 witness: two iterations are complete and the third frame sits alone in
\* the buffer.
C9_Witness ==
    pc = "loop" /\ count = 2 /\ nread = 3 /\ frames = <<3>>

\* C10: count is the number of pairs scored so far, and count >= 1 whenever
\* the final report is computed.
C10_CountPositiveAtReport ==
    /\ count = Len(losses)
    /\ pc \in {"final", "done"} => count >= 1

----------------------------------------------------------------------------
(* The claims about the per-pair loss (SpecLoss) *)

UnmaskedEntries == {e \in Entries : mask[e[2]] = 1}
SquaredError == [e \in Entries |-> (cs2[e] - warped_cs1[e]) * (cs2[e] - warped_cs1[e])]
UnmaskedSquaredError == SumOver(UnmaskedEntries, SquaredError)

\* C2, as stated: the per-pair loss is the sum of the squared error over the
\* unmasked entries divided by the number of unmasked entries.
C2_LossIsMeanOverUnmasked ==
    (lpc = "scored" /\ UnmaskedEntries # {}) =>
        loss[1] * Cardinality(UnmaskedEntries) = loss[2] * UnmaskedSquaredError

\* C2, amended: the per-pair loss is the sum of the squared error over the
\* unmasked entries divided by the number of all entries, C * H * W; a masked
\* pixel adds nothing to the sum and still counts in the divisor.
C2_LossIsSumOverAllEntries ==
    lpc = "scored" =>
        loss[1] * Cardinality(Entries) = loss[2] * UnmaskedSquaredError

\* C2 witness: a scored pair with a masked pixel that differs between the two
\* frames and an unmasked pixel that differs too.
C2_Witness ==
    /\ lpc = "scored"
    /\ \E e \in Entries \ UnmaskedEntries : SquaredError[e] > 0
    /\ \E e \in UnmaskedEntries : SquaredError[e] > 0
    /\ loss # Zero

----------------------------------------------------------------------------
(* The claims about the network modules (SpecNet) *)

ExpectedCall(i) ==
    [layer |-> i, fc |-> Tag("fc", i - 1), fs |-> Tag("fs", i - 1),
     fcs |-> IF i = 1 THEN Tag("fc", 0) ELSE Tag("adaattn", i - 1)]

\* C5: in AdaViT and AdaMSViT there are as many AdaAttN layers as encoder
\* levels consumed (3); layer i alone consumes level i, in the order 0, 1, 2;
\* layer 0 gets fc[0] as fcs and each later layer the previous output; only
\* the last layer's output reaches the decoder.
C5_LayersConsumeLevelsInOrder ==
    variant \in {"AdaViT", "AdaMSViT"} =>
        /\ \A i \in 1..Len(calls) : calls[i] = ExpectedCall(i)
        /\ npc = "l1" => Len(calls) = 1
        /\ npc = "l2" => Len(calls) = 2
        /\ npc \in {"l3", "decoded"} => Len(calls) = 3
        /\ npc = "decoded" =>
            /\ Len(layers) = 3
            /\ Len(in_fc) = 3
            /\ cs.from = Tag("adaattn", 3)

\* C5 witness: a multi-scale forward pass over levels of different size has
\* reached the decoder.
C5_Witness ==
    /\ npc = "decoded"
    /\ variant = "AdaMSViT"
    /\ in_fc[1].shape # in_fc[2].shape
    /\ cs.from = Tag("adaattn", 3)

\* C6: a constructor given a name other than "softmax" or "cosine" raises
\* ValueError and leaves no module, so no forward pass runs; "softmax" and
\* "cosine" construct with the Softmax and the CosineSimilarity scorer.
C6_UnknownActivationRaises ==
    npc # "new" =>
        IF act_name \in {"softmax", "cosine"}
        THEN /\ raised = ""
             /\ npc # "raised"
             /\ Len(layers) = IF variant = "AdaAttN" THEN 1 ELSE 3
             /\ \A i \in 1..Len(layers) :
                    layers[i].activation =
                        IF act_name = "softmax" THEN "Softmax" ELSE "CosineSimilarity"
        ELSE /\ npc = "raised"
             /\ raised = "ValueError"
             /\ layers = <<>>
             /\ decoder = <<>>
             /\ calls = <<>>

\* C6 witness: AdaViT given a name that differs from a known one only by its
\* case has raised.
C6_Witness ==
    npc = "raised" /\ variant = "AdaViT" /\ act_name = "Softmax" /\ layers = <<>>

----------------------------------------------------------------------------
(* The claims about the cosine scorer (SpecCos) *)

NonZero(v) == \E i \in 1..Len(v) : v[i] # 0
AllNonZero == (\A r \in 1..Len(q) : NonZero(q[r])) /\ (\A j \in 1..Len(k) : NonZero(k[j]))
\* v points exactly against u: v is a negative multiple of u.
Opposite(u, v) == u[1] * v[2] - u[2] * v[1] = 0 /\ u[1] * v[1] + u[2] * v[2] < 0

\* C7, as stated: when every query and key token has non-zero norm, every row
\* of the attention matrix sums to 1.
C7_RowsSumToOne ==
    (cpc = "scored" /\ AllNonZero) => \A r \in 1..Len(q) : FSum(a[r]) = One

\* C7, amended: when every query and key token has non-zero norm, every row
\* whose query is not pointed against by all the keys sums to 1; a row whose
\* keys all point exactly against the query is NaN throughout.
C7_RowsSumToOneUnlessOpposite ==
    (cpc = "scored" /\ AllNonZero) =>
        \A r \in 1..Len(q) :
            IF \A j \in 1..Len(k) : Opposite(q[r], k[j])
            THEN \A j \in 1..Len(k) : a[r][j] = NaN
            ELSE /\ FSum(a[r]) = One
                 /\ \A j \in 1..Len(k) : IsFinite(a[r][j]) /\ a[r][j][1] >= 0

\* C7 witness: a scored input of non-zero tokens with two different keys, one
\* of them pointing against the query.
C7_Witness ==
    /\ cpc = "scored"
    /\ AllNonZero
    /\ Len(k) = 2
    /\ Opposite(q[1], k[1])
    /\ ~Opposite(q[1], k[2])
    /\ FSum(a[1]) = One

====
